---------------------------- MODULE Spec2Model ----------------------------
(***************************************************************************)
(* Model of the guest binary analysis code of kvm-fuzz:                    *)
(*   - ElfParser (hypervisor/src/elf_parser.cpp): init(), set_load_addr(), *)
(*     section_limits(), kvm_to_dwarf_regs(), both get_stacktrace() and    *)
(*     elf_with_addr_in_text();                                            *)
(*   - PageTableEntry (kernel/src/x86/page_table.h).                       *)
(*                                                                         *)
(* vaddr_t / vsize_t / uintptr_t are 64-bit unsigned.  A 64-bit value is   *)
(* kept exactly, as four 16-bit limbs <<h3, h2, h1, h0>> (most significant *)
(* first), with wrap-around addition and subtraction.  The raw value of a  *)
(* page table entry is kept exactly as the set of its set bit positions.   *)
(***************************************************************************)
EXTENDS Integers, Sequences, FiniteSets, TLC

VARIABLES
    \* ---- ElfParser object under construction / relocation
    file,        \* the ELF image handed to the constructor (m_data)
    phase,       \* "raw" | "parsed" | "fatal"
    elf,         \* the ElfParser members
    fresh,       \* history: the members right after init()
    targets,     \* history: arguments of the successful set_load_addr calls
    \* ---- PageTableEntry
    m_raw,       \* set of bit positions set in m_raw
    pte_pc,      \* "ok" | "fatal"
    pte_last,    \* history: the last call [op, arg]
    pte_prev,    \* history: the call before it
    \* ---- get_stacktrace
    elfs,        \* the images (vector<const ElfParser*>)
    self,        \* single-image walk: index in elfs of *this; 0 for the static walk
    kregs,       \* the kvm_regs snapshot
    num_frames,  \* the frame cap
    regs,        \* vsize_t regs[DwarfReg::MAX]
    limits,      \* single-image walk: section_limits(".text")
    stacktrace,  \* the result vector
    i,           \* loop counter
    cur,         \* static walk: index in elfs of `elf`, 0 for nullptr
    pc,          \* position in get_stacktrace
    frames       \* history: the next_frame calls [img, ra_in, found, ra_out]

elfVars  == <<file, phase, elf, fresh, targets>>
pteVars  == <<m_raw, pte_pc, pte_last, pte_prev>>
walkVars == <<elfs, self, kregs, num_frames, regs, limits, stacktrace, i, cur,
              pc, frames>>
vars     == <<elfVars, pteVars, walkVars>>

---------------------------------------------------------------------------
(* 64-bit unsigned arithmetic                                              *)

LimbBase == 2^16

\* a small natural (< 2^31) as a 64-bit value
U64(n) == <<0, 0, n \div LimbBase, n % LimbBase>>

ZERO64 == <<0, 0, 0, 0>>

\* numeric_limits<vaddr_t>::max()
UINT64_MAX == <<LimbBase - 1, LimbBase - 1, LimbBase - 1, LimbBase - 1>>

\* a + b modulo 2^64 (uint64_t operator+)
Add64(a, b) ==
    LET s4 == a[4] + b[4]
        s3 == a[3] + b[3] + (s4 \div LimbBase)
        s2 == a[2] + b[2] + (s3 \div LimbBase)
        s1 == a[1] + b[1] + (s2 \div LimbBase)
    IN  <<s1 % LimbBase, s2 % LimbBase, s3 % LimbBase, s4 % LimbBase>>

\* a - b modulo 2^64 (uint64_t operator-): a + ~b + 1
Sub64(a, b) ==
    Add64(Add64(a, [k \in 1..4 |-> LimbBase - 1 - b[k]]), U64(1))

\* a < b on uint64_t
Lt64(a, b) ==
    \E k \in 1..4 : a[k] < b[k] /\ \A j \in 1..(k-1) : a[j] = b[j]

Le64(a, b) == a = b \/ Lt64(a, b)

\* std::min / std::max on vaddr_t
Min64(a, b) == IF Lt64(b, a) THEN b ELSE a
Max64(a, b) == IF Lt64(a, b) THEN b ELSE a

PAGE_SIZE == 4096

\* #define PAGE_CEIL(addr) (((addr) + PAGE_SIZE - 1) & ~(PAGE_SIZE - 1))
PAGE_CEIL(addr) ==
    LET s == Add64(addr, U64(PAGE_SIZE - 1))
    IN  <<s[1], s[2], s[3], s[4] - (s[4] % PAGE_SIZE)>>

---------------------------------------------------------------------------
(* ELF constants used by the parser                                        *)

ELFCLASS   == 2      \* ELFCLASS64
EM         == 62     \* EM_X86_64
ET_EXEC    == 2
ET_DYN     == 3
PT_LOAD    == 1
PT_INTERP  == 3
SHT_SYMTAB == 2
SHT_DYNSYM == 11


\* the macros that split st_info and st_other
ELF_ST_TYPE(info)        == info % 16
ELF_ST_BIND(info)        == info \div 16
ELF_ST_VISIBILITY(other) == other % 4

---------------------------------------------------------------------------
(* The input images.  Addresses are written as limbs <<h3, h2, h1, h0>>.   *)

MaxSegs   == 2     \* program headers per image
MaxRelocs == 2     \* set_load_addr calls per image

InterpPath == "/lib64/ld-linux-x86-64.so.2"

Phdr(type, vaddr, memsz) ==
    [p_type |-> type, p_flags |-> 5, p_offset |-> vaddr[4], p_vaddr |-> vaddr,
     p_paddr |-> vaddr, p_filesz |-> memsz, p_memsz |-> memsz,
     p_align |-> PAGE_SIZE, interp |-> InterpPath]

\* (p_vaddr, p_memsz) of the sample program headers; the last two reach the
\* top of the address space: the first one's page ceiling wraps to 0, the
\* second one's end wraps to 0x1000.
SegPlaces ==
    { <<ZERO64,                               U64(\h1234)>>,
      <<<<0, 0, \h0040, \h0000>>,             U64(\h1000)>>,
      <<<<0, 0, \h0040, \h1000>>,             U64(\h2345)>>,
      <<<<\hFFFF, \hFFFF, \hFFFF, \hF000>>,   U64(\h0FFF)>>,
      <<<<\hFFFF, \hFFFF, \hFFFF, \hF000>>,   U64(\h2000)>> }

PhdrChoices == { Phdr(t, p[1], p[2]) : t \in {PT_LOAD, PT_INTERP}, p \in SegPlaces }

SeqsUpTo(S, n) == UNION { [1..k -> S] : k \in 0..n }

\* string tables: st_name / sh_name is the index of the string
ShStrs  == <<"", ".text", ".symtab", ".strtab", ".shstrtab", ".dynsym", ".data">>
SymStrs == <<"", "main", "helper", "data_end">>

Sym(name, info, value, size) ==
    [st_name |-> name, st_info |-> info, st_other |-> 0, st_shndx |-> 1,
     st_value |-> value, st_size |-> size]

Shdr(name, type, addr, size, link) ==
    [sh_name |-> name, sh_type |-> type, sh_flags |-> 0, sh_addr |-> addr,
     sh_offset |-> addr[4], sh_size |-> size, sh_link |-> link, sh_info |-> 0,
     sh_addralign |-> 1, sh_entsize |-> 0, strs |-> <<>>, syms |-> <<>>]

\* section headers 0..5: the null section (type 0), a SHT_PROGBITS (1)
\* section named ShStrs[textName + 1], .symtab, the two string tables
\* (SHT_STRTAB, 3) and .dynsym
Shdrs(textName, textAddr, textSize) ==
    << Shdr(0, 0, ZERO64, ZERO64, 0),
       Shdr(textName, 1, textAddr, textSize, 0),
       [Shdr(2, SHT_SYMTAB, ZERO64, U64(48), 3) EXCEPT !.syms =
           << Sym(1, 18, Add64(textAddr, U64(\h100)), U64(\h40)),
              Sym(2, 2,  Add64(textAddr, U64(\h800)), U64(\h20)) >>],
       [Shdr(3, 3, ZERO64, U64(21), 0) EXCEPT !.strs = SymStrs],
       [Shdr(4, 3, ZERO64, U64(44), 0) EXCEPT !.strs = ShStrs],
       [Shdr(5, SHT_DYNSYM, ZERO64, U64(24), 3) EXCEPT !.syms =
           << Sym(3, 17, <<\hFFFF, \hFFFF, \hFFFF, \hFFF0>>, U64(\h20)) >>] >>

ElfFile(class, machine, type, phdr, shdr) ==
    [e_class |-> class, e_machine |-> machine, e_type |-> type,
     e_entry |-> shdr[2].sh_addr, e_shstrndx |-> 4, phdr |-> phdr, shdr |-> shdr]

\* (e_ident[EI_CLASS], e_machine, e_type) of the sample headers; the last
\* three are a relocatable file (ET_REL, 1), a 32-bit one (ELFCLASS32, 1)
\* and one for another machine (EM_386, 3)
Headers ==
    { <<ELFCLASS, EM, ET_EXEC>>, <<ELFCLASS, EM, ET_DYN>>,
      <<ELFCLASS, EM, 1>>,       <<1, EM, ET_DYN>>,
      <<ELFCLASS, 3, ET_EXEC>> }

Files ==
    { ElfFile(h[1], h[2], h[3], ph, sh) :
        h \in Headers, ph \in SeqsUpTo(PhdrChoices, MaxSegs),
        sh \in { Shdrs(1, U64(\h1000), U64(\h2000)) } }

RelocAddrs ==
    { ZERO64, <<0, \h7FFF, \hF7DD, \h0000>>, <<\hFFFF, \hFFFF, \hFFFF, \hF000>> }

---------------------------------------------------------------------------
(* ElfParser::init                                                         *)

\* the segment loop with the PT_LOAD test left out
RECURSIVE SegmentLoop_AnyType(_, _, _, _)
SegmentLoop_AnyType(phdr, k, load, brk) ==
    IF k > Len(phdr) THEN [m_load_addr |-> load, m_initial_brk |-> brk]
    ELSE SegmentLoop_AnyType(phdr, k + 1, Min64(load, phdr[k].p_vaddr),
             Max64(brk, PAGE_CEIL(Add64(phdr[k].p_vaddr, phdr[k].p_memsz))))

\* lines 63-86: m_load_addr and m_initial_brk over the program headers
\* k..e_phnum, given their values so far
RECURSIVE SegmentLoop(_, _, _, _)
SegmentLoop(phdr, k, load, brk) ==
    IF k > Len(phdr) THEN [m_load_addr |-> load, m_initial_brk |-> brk]
    ELSE IF phdr[k].p_type = PT_LOAD
         THEN LET next_page == PAGE_CEIL(Add64(phdr[k].p_vaddr, phdr[k].p_memsz))
              IN  SegmentLoop(phdr, k + 1, Min64(load, phdr[k].p_vaddr),
                              Max64(brk, next_page))
         ELSE SegmentLoop(phdr, k + 1, load, brk)

\* lines 67-78: segment_t of a program header
Segment(ph) ==
    [type |-> ph.p_type, flags |-> ph.p_flags, offset |-> ph.p_offset,
     vaddr |-> ph.p_vaddr, paddr |-> ph.p_paddr, filesize |-> ph.p_filesz,
     memsize |-> ph.p_memsz, align |-> ph.p_align]

\* lines 87-88: the content of the last PT_INTERP segment, "" if none
Interpreter(phdr) ==
    LET is == { k \in DOMAIN phdr : phdr[k].p_type = PT_INTERP }
    IN  IF is = {} THEN ""
        ELSE phdr[CHOOSE k \in is : \A j \in is : j <= k].interp

\* lines 96-113: section_t of a section header, its name read from the
\* section header string table
Section(f, sh) ==
    [name |-> f.shdr[f.e_shstrndx + 1].strs[sh.sh_name + 1], type |-> sh.sh_type,
     flags |-> sh.sh_flags, addr |-> sh.sh_addr, offset |-> sh.sh_offset,
     size |-> sh.sh_size, link |-> sh.sh_link, info |-> sh.sh_info,
     addralign |-> sh.sh_addralign, entsize |-> sh.sh_entsize]

\* lines 127-138: symbol_t of the symbols of one symbol section, names read
\* from the string table the section links to
SectionSymbols(f, sh) ==
    [k \in DOMAIN sh.syms |->
        [name       |-> f.shdr[sh.sh_link + 1].strs[sh.syms[k].st_name + 1],
         type       |-> ELF_ST_TYPE(sh.syms[k].st_info),
         binding    |-> ELF_ST_BIND(sh.syms[k].st_info),
         visibility |-> ELF_ST_VISIBILITY(sh.syms[k].st_other),
         shndx      |-> sh.syms[k].st_shndx,
         value      |-> sh.syms[k].st_value,
         size       |-> sh.syms[k].st_size]]

\* lines 116-139: the symbols of the SHT_SYMTAB and SHT_DYNSYM sections
\* k.., in section order
RECURSIVE Symbols(_, _)
Symbols(f, k) ==
    IF k > Len(f.shdr) THEN <<>>
    ELSE IF f.shdr[k].sh_type # SHT_SYMTAB /\ f.shdr[k].sh_type # SHT_DYNSYM
         THEN Symbols(f, k + 1)
         ELSE SectionSymbols(f, f.shdr[k]) \o Symbols(f, k + 1)

\* lines 55-60: the header checks
HeaderOk(f) ==
    /\ f.e_class = ELFCLASS
    /\ f.e_machine = EM
    /\ (f.e_type = ET_EXEC \/ f.e_type = ET_DYN)

\* the members after init(), the assertions aside
Parse(f) ==
    LET seg == SegmentLoop(f.phdr, 1, UINT64_MAX, ZERO64)
    IN  [m_type        |-> f.e_type,
         m_entry       |-> f.e_entry,
         m_load_addr   |-> seg.m_load_addr,
         m_initial_brk |-> seg.m_initial_brk,
         m_interpreter |-> Interpreter(f.phdr),
         m_segments    |-> [k \in DOMAIN f.phdr |-> Segment(f.phdr[k])],
         m_sections    |-> [k \in DOMAIN f.shdr |-> Section(f, f.shdr[k])],
         m_symbols     |-> Symbols(f, 1)]

\* lines 92-93: a PIE binary must have load address 0
PieOk(e) == e.m_type = ET_DYN => e.m_load_addr = ZERO64

\* whether init() returns, i.e. no assertion fails
Accepted(f) == HeaderOk(f) /\ PieOk(Parse(f))

NoElf == [m_type |-> 0]

\* the constructor: ElfParser(path, data, size) -> init()
Construct ==
    /\ phase = "raw"
    /\ IF Accepted(file)
       THEN /\ phase' = "parsed"
            /\ elf' = Parse(file)
            /\ fresh' = Parse(file)
       ELSE /\ phase' = "fatal"
            /\ UNCHANGED <<elf, fresh>>
    /\ UNCHANGED <<file, targets>>

---------------------------------------------------------------------------
(* ElfParser::set_load_addr                                                *)

\* set_load_addr computing the difference after m_load_addr is overwritten
SetLoadAddr_LateDiff(e, load_addr) == [e EXCEPT !.m_load_addr = load_addr]

\* set_load_addr adding the new address instead of the difference
SetLoadAddr_NoDiff(e, load_addr) ==
    [e EXCEPT
        !.m_load_addr   = load_addr,
        !.m_entry       = Add64(@, load_addr),
        !.m_initial_brk = Add64(@, load_addr),
        !.m_segments    = [k \in DOMAIN @ |->
                              [@[k] EXCEPT !.vaddr = Add64(@, load_addr),
                                           !.paddr = Add64(@, load_addr)]],
        !.m_sections    = [k \in DOMAIN @ |->
                              [@[k] EXCEPT !.addr = Add64(@, load_addr)]],
        !.m_symbols     = [k \in DOMAIN @ |->
                              [@[k] EXCEPT !.value = Add64(@, load_addr)]]]

\* lines 169-184: the members after set_load_addr(load_addr)
SetLoadAddr(e, load_addr) ==
    LET diff == Sub64(load_addr, e.m_load_addr)
    IN  [e EXCEPT
            !.m_load_addr   = load_addr,
            !.m_entry       = Add64(@, diff),
            !.m_initial_brk = Add64(@, diff),
            !.m_segments    = [k \in DOMAIN @ |->
                                  [@[k] EXCEPT !.vaddr = Add64(@, diff),
                                               !.paddr = Add64(@, diff)]],
            !.m_sections    = [k \in DOMAIN @ |->
                                  [@[k] EXCEPT !.addr = Add64(@, diff)]],
            !.m_symbols     = [k \in DOMAIN @ |->
                                  [@[k] EXCEPT !.value = Add64(@, diff)]]]

\* set_load_addr without its assertion
IsPie_Unchecked(e) == TRUE

\* line 167: the condition of the assertion
IsPie(e) == e.m_type = ET_DYN

\* one call of set_load_addr(load_addr)
CallSetLoadAddr(load_addr) ==
    /\ phase = "parsed"
    /\ Len(targets) < MaxRelocs
    /\ IF IsPie(elf)
       THEN /\ elf' = SetLoadAddr(elf, load_addr)
            /\ targets' = Append(targets, load_addr)
            /\ UNCHANGED phase
       ELSE /\ phase' = "fatal"
            /\ UNCHANGED <<elf, targets>>
    /\ UNCHANGED <<file, fresh>>

---------------------------------------------------------------------------
(* PageTableEntry.  A value is the set of its set bits, so that            *)
(* x & y is the intersection, x | y the union and ~x the complement.       *)

AllBits == 0..63

\* #define PHYS_MASK (0x000FFFFFFFFFF000): bits 12..51
PHYS_MASK == 12..51

\* enum Flags
Present   == {0}
ReadWrite == {1}
User      == {2}
Accessed  == {5}
Dirty     == {6}
Huge      == {7}
Global    == {8}
NoExecute == {63}

\* uintptr_t raw()
Raw(raw) == raw

\* uintptr_t frame_base()
FrameBase(raw) == raw \cap PHYS_MASK

\* #define PHYS_FLAGS(addr) ((addr) & (~PHYS_MASK))
PHYS_FLAGS(raw) == raw \cap (AllBits \ PHYS_MASK)

\* set_frame_base or-ing the base in without clearing the old one
FrameBaseSet_NoClear(raw, base) == raw \cup base

\* lines 66-67: m_raw after set_frame_base(base)
FrameBaseSet(raw, base) == (raw \cap (AllBits \ PHYS_MASK)) \cup base

\* lines 73-74: m_raw after set_flags(page_flags)
FlagsSet(raw, page_flags) == (raw \cap PHYS_MASK) \cup page_flags

\* line 65: the condition of set_frame_base's assertion
BaseOk(base) == (base \cap PHYS_MASK) = base

\* line 71: the condition of set_flags's assertion
FlagsOk(page_flags) == (page_flags \cap (AllBits \ PHYS_MASK)) = page_flags

\* void set_bit(uint64_t bit, bool value)
SetBitRaw(raw, bit, value) ==
    IF value THEN raw \cup bit ELSE raw \cap (AllBits \ bit)

\* the sample arguments; 0x1001 and 1 << 52 are no frame bases, 0x1000 is no
\* flag set
Bases ==
    { {}, {12}, {12, 30, 51}, PHYS_MASK, {0, 12}, {52} }
FlagSets ==
    { {}, {0, 1, 2}, {0, 5, 6, 63}, {12}, {0, 20} }
\* m_raw has no initializer: the entry starts with whatever memory holds
InitRaws ==
    { {}, {0, 5, 12, 52}, {1, 13, 51, 63} }

NoCall == [op |-> "none", arg |-> {}]

\* the history keeps the argument of a set_frame_base call only
Older(call) == IF call.op = "set_frame_base" THEN call ELSE NoCall

Logged(op, arg) ==
    /\ pte_last' = [op |-> op, arg |-> arg]
    /\ pte_prev' = Older(pte_last)

set_frame_base(base) ==
    /\ pte_pc = "ok"
    /\ IF BaseOk(base)
       THEN m_raw' = FrameBaseSet(m_raw, base) /\ UNCHANGED pte_pc
       ELSE pte_pc' = "fatal" /\ UNCHANGED m_raw
    /\ Logged("set_frame_base", base)

set_flags(page_flags) ==
    /\ pte_pc = "ok"
    /\ IF FlagsOk(page_flags)
       THEN m_raw' = FlagsSet(m_raw, page_flags) /\ UNCHANGED pte_pc
       ELSE pte_pc' = "fatal" /\ UNCHANGED m_raw
    /\ Logged("set_flags", page_flags)

clear ==
    /\ pte_pc = "ok"
    /\ m_raw' = {}
    /\ UNCHANGED pte_pc
    /\ Logged("clear", {})

SetFlagBit(op, bit, b) ==
    /\ pte_pc = "ok"
    /\ m_raw' = SetBitRaw(m_raw, bit, b)
    /\ UNCHANGED pte_pc
    /\ Logged(op, bit)

set_present(b)          == SetFlagBit("set_present", Present, b)
set_writable(b)         == SetFlagBit("set_writable", ReadWrite, b)
set_user(b)             == SetFlagBit("set_user", User, b)
set_huge(b)             == SetFlagBit("set_huge", Huge, b)
set_global(b)           == SetFlagBit("set_global", Global, b)
set_execute_disabled(b) == SetFlagBit("set_execute_disabled", NoExecute, b)

is_present(raw)          == raw \cap Present # {}
is_writable(raw)         == raw \cap ReadWrite # {}
is_user(raw)             == raw \cap User # {}
is_huge(raw)             == raw \cap Huge # {}
is_global(raw)           == raw \cap Global # {}
is_execute_disabled(raw) == raw \cap NoExecute # {}

---------------------------------------------------------------------------
(* Stack unwinding: kvm_to_dwarf_regs, section_limits,                     *)
(* elf_with_addr_in_text and the two get_stacktrace.                       *)
(* ElfDebug::next_frame is outside this code: a call returns either answer *)
(* and leaves any of the sample addresses in the return address slot.      *)

MaxFrames == 3     \* largest frame cap

\* the slots of vsize_t regs[DwarfReg::MAX] the conversion writes, and the
\* kvm_regs field each one is named after
DwarfRegs ==
    { "Rax", "Rdx", "Rcx", "Rbx", "Rsi", "Rdi", "Rbp", "Rsp", "R8", "R9",
      "R10", "R11", "R12", "R13", "R14", "R15", "ReturnAddress" }

\* lines 267-283
kvm_to_dwarf_regs(kr) ==
    [r \in DwarfRegs |->
        CASE r = "Rax" -> kr.rax
          [] r = "Rdx" -> kr.rdx
          [] r = "Rcx" -> kr.rdx
          [] r = "Rbx" -> kr.rbx
          [] r = "Rsi" -> kr.rsi
          [] r = "Rdi" -> kr.rdi
          [] r = "Rbp" -> kr.rbp
          [] r = "Rsp" -> kr.rsp
          [] r = "R8"  -> kr.r8
          [] r = "R9"  -> kr.r9
          [] r = "R10" -> kr.r10
          [] r = "R11" -> kr.r11
          [] r = "R12" -> kr.r12
          [] r = "R13" -> kr.r13
          [] r = "R14" -> kr.r14
          [] r = "R15" -> kr.r15
          [] r = "ReturnAddress" -> kr.rip]

\* the result of a lookup that ends in ASSERT(false, "not found ...")
NotFound == <<>>

\* lines 231-236: the first section of that name, as [addr, addr + size)
RECURSIVE SectionScan(_, _, _)
SectionScan(sections, k, name) ==
    IF k > Len(sections) THEN NotFound
    ELSE IF sections[k].name = name
         THEN <<sections[k].addr, Add64(sections[k].addr, sections[k].size)>>
         ELSE SectionScan(sections, k + 1, name)

section_limits(e, name) == SectionScan(e.m_sections, 1, name)

\* the range test with the upper limit included
InRange_Closed(range, addr) == Le64(range[1], addr) /\ Le64(addr, range[2])

\* lines 312-313 and 322: range.first <= addr && addr < range.second
InRange(range, addr) == Le64(range[1], addr) /\ Lt64(addr, range[2])

\* the lookup returning the last image whose .text holds addr
RECURSIVE ElfScan_Last(_, _, _)
ElfScan_Last(es, k, addr) ==
    IF k < 1 THEN 0
    ELSE IF section_limits(es[k], ".text") = NotFound THEN -1
         ELSE IF InRange(section_limits(es[k], ".text"), addr) THEN k
              ELSE ElfScan_Last(es, k - 1, addr)

\* lines 320-325: the images k.. in order; the index of the first one whose
\* .text holds addr, 0 for nullptr, -1 when section_limits asserts on the way
RECURSIVE ElfScan(_, _, _)
ElfScan(es, k, addr) ==
    IF k > Len(es) THEN 0
    ELSE IF section_limits(es[k], ".text") = NotFound THEN -1
         ELSE IF InRange(section_limits(es[k], ".text"), addr) THEN k
              ELSE ElfScan(es, k + 1, addr)

elf_with_addr_in_text_Last(es, addr) == ElfScan_Last(es, Len(es), addr)

elf_with_addr_in_text(es, addr) == ElfScan(es, 1, addr)

\* lines 307-308 and 347-348 without the subtraction
LinkTimeAddr_Absolute(e, addr) == addr

\* lines 307-308 and 347-348: the return address handed to next_frame
LinkTimeAddr(e, addr) ==
    IF e.m_type = ET_DYN THEN Sub64(addr, e.m_load_addr) ELSE addr

\* the loop condition letting one frame more through
BelowCap_Inclusive(n, cap) == n <= cap

\* lines 310 and 350: ++i < num_frames, n being i after the increment
BelowCap(n, cap) == n < cap

\* ---- the images and addresses of the walks

LibBase == <<0, \h7FFF, \hF7DD, \h0000>>

ExecImage(textName, textAddr, textSize) ==
    Parse(ElfFile(ELFCLASS, EM, ET_EXEC,
                  << Phdr(PT_LOAD, <<0, 0, \h0040, \h0000>>, U64(\h4000)) >>,
                  Shdrs(textName, textAddr, textSize)))

\* .text [0x401000, 0x402000)
MainElf    == ExecImage(1, <<0, 0, \h0040, \h1000>>, U64(\h1000))
\* .text [0x401800, 0x403000)
OverlapElf == ExecImage(1, <<0, 0, \h0040, \h1800>>, U64(\h1800))
\* no section named .text
NoTextElf  == ExecImage(6, <<0, 0, \h0040, \h4000>>, U64(\h1000))
\* position independent, .text [0x1000, 0x3000) moved to LibBase
LibElf ==
    SetLoadAddr(Parse(ElfFile(ELFCLASS, EM, ET_DYN,
                              << Phdr(PT_LOAD, ZERO64, U64(\h4000)) >>,
                              Shdrs(1, U64(\h1000), U64(\h2000)))),
                LibBase)

ImageSets ==
    { <<MainElf, OverlapElf, LibElf>>, <<OverlapElf, MainElf>>,
      <<LibElf, NoTextElf>>, <<NoTextElf, LibElf>>, <<>> }

WalkAddrs ==
    { <<0, 0, \h0040, \h1000>>,          \* first byte of MainElf's .text
      <<0, 0, \h0040, \h1900>>,          \* in MainElf's and OverlapElf's
      <<0, 0, \h0040, \h2000>>,          \* MainElf's end, in OverlapElf's
      Add64(LibBase, U64(\h1500)),       \* in LibElf's
      Add64(LibBase, U64(\h3000)),       \* LibElf's end
      U64(\h10) }                        \* in no image

KRegs(rip) ==
    [rax |-> U64(\hA001), rbx |-> U64(\hA002), rcx |-> U64(\hA003),
     rdx |-> U64(\hA004), rsi |-> U64(\hA005), rdi |-> U64(\hA006),
     rsp |-> U64(\hA007), rbp |-> U64(\hA008), r8 |-> U64(\hA009),
     r9 |-> U64(\hA00A), r10 |-> U64(\hA00B), r11 |-> U64(\hA00C),
     r12 |-> U64(\hA00D), r13 |-> U64(\hA00E), r14 |-> U64(\hA00F),
     r15 |-> U64(\hA010), rip |-> rip, rflags |-> U64(\h0202)]

RA == regs["ReturnAddress"]

\* a call of next_frame on image img: its answer and the return address
\* slot it leaves
NextFrame(img, found, out) ==
    /\ regs' = [regs EXCEPT !["ReturnAddress"] = out]
    /\ frames' = Append(frames, [img |-> img, ra_in |-> RA, found |-> found,
                                 ra_out |-> out])

\* ---- ElfParser::get_stacktrace(kregs, num_frames, mmu)

\* lines 289-304
SingleEnter ==
    /\ pc = "start" /\ self > 0
    /\ regs' = kvm_to_dwarf_regs(kregs)
    /\ limits' = section_limits(elfs[self], ".text")
    /\ pc' = IF section_limits(elfs[self], ".text") = NotFound
             THEN "fatal" ELSE "body"
    /\ UNCHANGED <<elfs, self, kregs, num_frames, stacktrace, i, cur, frames>>

\* lines 306-308
SingleBody ==
    /\ pc = "body" /\ self > 0
    /\ stacktrace' = Append(stacktrace, RA)
    /\ regs' = [regs EXCEPT !["ReturnAddress"] = LinkTimeAddr(elfs[self], RA)]
    /\ pc' = "cond"
    /\ UNCHANGED <<elfs, self, kregs, num_frames, limits, i, cur, frames>>

\* line 310 false: the cap ends the loop, next_frame is not called
SingleCap ==
    /\ pc = "cond" /\ self > 0
    /\ ~BelowCap(i + 1, num_frames)
    /\ i' = i + 1
    /\ pc' = "done"
    /\ UNCHANGED <<elfs, self, kregs, num_frames, regs, limits, stacktrace,
                   cur, frames>>

\* lines 310-313 with next_frame called
SingleStep(found, out) ==
    /\ pc = "cond" /\ self > 0
    /\ BelowCap(i + 1, num_frames)
    /\ i' = i + 1
    /\ NextFrame(self, found, out)
    /\ pc' = IF found /\ InRange(limits, out) THEN "body" ELSE "done"
    /\ UNCHANGED <<elfs, self, kregs, num_frames, limits, stacktrace, cur>>

\* ---- ElfParser::get_stacktrace(elfs, kregs, num_frames, mmu)

\* lines 332-341
MultiEnter ==
    /\ pc = "start" /\ self = 0
    /\ regs' = kvm_to_dwarf_regs(kregs)
    /\ pc' = "body"
    /\ UNCHANGED <<elfs, self, kregs, num_frames, limits, stacktrace, i, cur,
                   frames>>

\* lines 343-348
MultiBody ==
    /\ pc = "body" /\ self = 0
    /\ LET found == elf_with_addr_in_text(elfs, RA)
       IN  IF found = -1
           THEN pc' = "fatal" /\ UNCHANGED <<cur, stacktrace, regs>>
           ELSE IF found = 0
           THEN pc' = "done" /\ cur' = 0 /\ UNCHANGED <<stacktrace, regs>>
           ELSE /\ cur' = found
                /\ stacktrace' = Append(stacktrace, [addr |-> RA, elf |-> found])
                /\ regs' = [regs EXCEPT
                              !["ReturnAddress"] = LinkTimeAddr(elfs[found], RA)]
                /\ pc' = "cond"
    /\ UNCHANGED <<elfs, self, kregs, num_frames, limits, i, frames>>

\* line 350 false
MultiCap ==
    /\ pc = "cond" /\ self = 0
    /\ ~BelowCap(i + 1, num_frames)
    /\ i' = i + 1
    /\ pc' = "done"
    /\ UNCHANGED <<elfs, self, kregs, num_frames, regs, limits, stacktrace,
                   cur, frames>>

\* lines 350-351 with next_frame called
MultiStep(found, out) ==
    /\ pc = "cond" /\ self = 0
    /\ BelowCap(i + 1, num_frames)
    /\ i' = i + 1
    /\ NextFrame(cur, found, out)
    /\ pc' = IF found THEN "body" ELSE "done"
    /\ UNCHANGED <<elfs, self, kregs, num_frames, limits, stacktrace, cur>>

---------------------------------------------------------------------------
(* Specifications                                                          *)

ElfIdle ==
    /\ file = [e_type |-> 0] /\ phase = "idle" /\ elf = NoElf /\ fresh = NoElf
    /\ targets = <<>>

PteIdle ==
    /\ m_raw = {} /\ pte_pc = "idle" /\ pte_last = NoCall /\ pte_prev = NoCall

WalkIdle ==
    /\ elfs = <<>> /\ self = 0 /\ kregs = KRegs(ZERO64) /\ num_frames = 0
    /\ regs = [r \in DwarfRegs |-> ZERO64] /\ limits = NotFound
    /\ stacktrace = <<>> /\ i = 0 /\ cur = 0 /\ pc = "idle" /\ frames = <<>>

\* an image is parsed and, when it may be, moved
InitElf ==
    /\ file \in Files
    /\ phase = "raw" /\ elf = NoElf /\ fresh = NoElf /\ targets = <<>>
    /\ PteIdle /\ WalkIdle

NextElf ==
    \/ Construct /\ UNCHANGED <<pteVars, walkVars>>
    \/ \E a \in RelocAddrs : CallSetLoadAddr(a) /\ UNCHANGED <<pteVars, walkVars>>

SpecElf == InitElf /\ [][NextElf]_vars

\* a page table entry is written
InitPte ==
    /\ m_raw \in InitRaws
    /\ pte_pc = "ok" /\ pte_last = NoCall /\ pte_prev = NoCall
    /\ ElfIdle /\ WalkIdle

NextPte ==
    \/ \E base \in Bases : set_frame_base(base) /\ UNCHANGED <<elfVars, walkVars>>
    \/ \E fl \in FlagSets : set_flags(fl) /\ UNCHANGED <<elfVars, walkVars>>
    \/ clear /\ UNCHANGED <<elfVars, walkVars>>
    \/ \E b \in BOOLEAN : set_present(b) /\ UNCHANGED <<elfVars, walkVars>>
    \/ \E b \in BOOLEAN : set_writable(b) /\ UNCHANGED <<elfVars, walkVars>>
    \/ \E b \in BOOLEAN : set_user(b) /\ UNCHANGED <<elfVars, walkVars>>
    \/ \E b \in BOOLEAN : set_huge(b) /\ UNCHANGED <<elfVars, walkVars>>
    \/ \E b \in BOOLEAN : set_global(b) /\ UNCHANGED <<elfVars, walkVars>>
    \/ \E b \in BOOLEAN : set_execute_disabled(b) /\ UNCHANGED <<elfVars, walkVars>>

SpecPte == InitPte /\ [][NextPte]_vars

\* one stack walk over a set of images, single-image (self > 0) or not
InitWalk ==
    /\ elfs \in ImageSets
    /\ self \in 0..Len(elfs)
    /\ \E rip \in WalkAddrs : kregs = KRegs(rip)
    /\ num_frames \in 0..MaxFrames
    /\ regs = [r \in DwarfRegs |-> ZERO64] /\ limits = NotFound
    /\ stacktrace = <<>> /\ i = 0 /\ cur = 0 /\ pc = "start" /\ frames = <<>>
    /\ ElfIdle /\ PteIdle

NextWalk ==
    \/ SingleEnter /\ UNCHANGED <<elfVars, pteVars>>
    \/ SingleBody /\ UNCHANGED <<elfVars, pteVars>>
    \/ SingleCap /\ UNCHANGED <<elfVars, pteVars>>
    \/ \E found \in BOOLEAN, out \in WalkAddrs :
          SingleStep(found, out) /\ UNCHANGED <<elfVars, pteVars>>
    \/ MultiEnter /\ UNCHANGED <<elfVars, pteVars>>
    \/ MultiBody /\ UNCHANGED <<elfVars, pteVars>>
    \/ MultiCap /\ UNCHANGED <<elfVars, pteVars>>
    \/ \E found \in BOOLEAN, out \in WalkAddrs :
          MultiStep(found, out) /\ UNCHANGED <<elfVars, pteVars>>

SpecWalk == InitWalk /\ [][NextWalk]_vars

---------------------------------------------------------------------------
(* Properties of ElfParser::init and set_load_addr (under SpecElf)         *)

MinOf(S) == CHOOSE x \in S : \A y \in S : Le64(x, y)
MaxOf(S) == CHOOSE x \in S : \A y \in S : Le64(y, x)

LoadSegs(e) == { k \in DOMAIN e.m_segments : e.m_segments[k].type = PT_LOAD }
SegEnd(seg) == Add64(seg.vaddr, seg.memsize)

\* neither the end of the segment nor its page ceiling passes 2^64
NoWrap(seg) ==
    Le64(seg.vaddr, SegEnd(seg)) /\ Le64(SegEnd(seg), PAGE_CEIL(SegEnd(seg)))

JustParsed == phase = "parsed" /\ targets = <<>>

\* C1 as stated: after parsing an accepted image, load_address is the least
\* p_vaddr of the PT_LOAD segments and initial_break is the page ceiling of
\* the greatest (vaddr + memsize) of the PT_LOAD segments.
C1_AsStated ==
    (JustParsed /\ LoadSegs(elf) # {}) =>
        /\ elf.m_load_addr =
               MinOf({ elf.m_segments[k].vaddr : k \in LoadSegs(elf) })
        /\ elf.m_initial_brk =
               PAGE_CEIL(MaxOf({ SegEnd(elf.m_segments[k]) : k \in LoadSegs(elf) }))

\* C1 amended: load_address is the least p_vaddr of the PT_LOAD segments
\* (2^64 - 1 when there is none); initial_break is the greatest of the page
\* ceilings, each computed modulo 2^64, of the PT_LOAD segments' ends (0 when
\* there is none), which is the page ceiling of the greatest end whenever no
\* end and no ceiling wraps; segments of other types play no part.
C1_LoadAddrAndBreak ==
    JustParsed =>
        /\ elf.m_load_addr =
               MinOf({ elf.m_segments[k].vaddr : k \in LoadSegs(elf) }
                     \cup {UINT64_MAX})
        /\ elf.m_initial_brk =
               MaxOf({ PAGE_CEIL(SegEnd(elf.m_segments[k])) : k \in LoadSegs(elf) }
                     \cup {ZERO64})
        /\ ( /\ LoadSegs(elf) # {}
             /\ \A k \in LoadSegs(elf) : NoWrap(elf.m_segments[k]) )
           => elf.m_initial_brk =
                  PAGE_CEIL(MaxOf({ SegEnd(elf.m_segments[k]) : k \in LoadSegs(elf) }))

\* a parsed image with a PT_LOAD segment whose page ceiling wraps beside one
\* whose does not
C1_Witness ==
    /\ JustParsed
    /\ \E j, k \in LoadSegs(elf) :
          /\ NoWrap(elf.m_segments[j])
          /\ ~NoWrap(elf.m_segments[k])
    /\ elf.m_initial_brk # ZERO64

\* the step is a successful set_load_addr call
Relocated == phase = "parsed" /\ Len(targets') = Len(targets) + 1

\* C2: one set_load_addr(new) adds new - load_address (modulo 2^64) to the
\* entry point, the initial break, every segment's vaddr and paddr, every
\* section's addr and every symbol's value, and sets load_address to new;
\* the difference of any two symbol values is kept, and every other field
\* (sizes, offsets, names, types) is unchanged.
C2_UniformShift ==
    [][ Relocated =>
          LET new  == targets'[Len(targets')]
              diff == Sub64(new, elf.m_load_addr)
          IN  /\ elf'.m_load_addr = new
              /\ elf'.m_entry = Add64(elf.m_entry, diff)
              /\ elf'.m_initial_brk = Add64(elf.m_initial_brk, diff)
              /\ elf'.m_type = elf.m_type
              /\ elf'.m_interpreter = elf.m_interpreter
              /\ DOMAIN elf'.m_segments = DOMAIN elf.m_segments
              /\ \A k \in DOMAIN elf.m_segments :
                    elf'.m_segments[k] =
                        [elf.m_segments[k] EXCEPT !.vaddr = Add64(@, diff),
                                                  !.paddr = Add64(@, diff)]
              /\ DOMAIN elf'.m_sections = DOMAIN elf.m_sections
              /\ \A k \in DOMAIN elf.m_sections :
                    elf'.m_sections[k] =
                        [elf.m_sections[k] EXCEPT !.addr = Add64(@, diff)]
              /\ DOMAIN elf'.m_symbols = DOMAIN elf.m_symbols
              /\ \A k \in DOMAIN elf.m_symbols :
                    elf'.m_symbols[k] =
                        [elf.m_symbols[k] EXCEPT !.value = Add64(@, diff)]
              /\ \A j, k \in DOMAIN elf.m_symbols :
                    Sub64(elf'.m_symbols[k].value, elf'.m_symbols[j].value) =
                    Sub64(elf.m_symbols[k].value, elf.m_symbols[j].value)
      ]_vars

\* an image moved twice, the second move by a difference that wraps
C2_Witness ==
    /\ phase = "parsed"
    /\ Len(targets) = 2
    /\ targets[1] = <<\hFFFF, \hFFFF, \hFFFF, \hF000>>
    /\ targets[2] = <<0, \h7FFF, \hF7DD, \h0000>>
    /\ elf.m_segments # <<>>

\* C3: set_load_addr(A) then set_load_addr(B) on a freshly parsed position
\* independent image leaves every member as a single set_load_addr(B) on the
\* freshly parsed image does.
C3_RelocationComposes ==
    (phase = "parsed" /\ Len(targets) >= 2) =>
        /\ fresh.m_load_addr = ZERO64
        /\ elf = SetLoadAddr(fresh, targets[Len(targets)])

\* moved to A, then to a different B, neither of them 0
C3_Witness ==
    /\ phase = "parsed"
    /\ Len(targets) = 2
    /\ targets[1] # targets[2]
    /\ targets[1] # ZERO64
    /\ targets[2] # ZERO64
    /\ elf.m_symbols # <<>>

\* C4: set_load_addr on an image that is not ET_DYN ends in a fatal error
\* and changes no member (from a parsed image the only call made is
\* set_load_addr); it has succeeded only on ET_DYN images, and those had load
\* address 0 right after parsing.
C4_OnlyPieRelocates ==
    /\ [][ (phase = "parsed" /\ elf.m_type # ET_DYN) =>
              (phase' = "fatal" /\ elf' = elf /\ targets' = targets) ]_vars
    /\ [](targets # <<>> => (elf.m_type = ET_DYN /\ fresh.m_type = ET_DYN))
    /\ []((phase = "parsed" /\ fresh.m_type = ET_DYN) =>
              fresh.m_load_addr = ZERO64)

\* set_load_addr was called on a parsed ET_EXEC image
C4_Witness ==
    /\ phase = "fatal"
    /\ fresh # NoElf
    /\ fresh.m_type = ET_EXEC
    /\ elf = fresh

---------------------------------------------------------------------------
(* Properties of PageTableEntry (under SpecPte)                            *)

\* C5: after set_frame_base(base) then set_flags(flags), frame_base() is
\* base and the bits of raw() outside PHYS_MASK are flags; set_frame_base
\* changes no bit outside PHYS_MASK, set_flags none inside it; a base with
\* a bit outside PHYS_MASK fails the assertion and leaves the entry as it was.
C5_BaseAndFlags ==
    /\ []( ( /\ pte_pc = "ok"
             /\ pte_prev.op = "set_frame_base"
             /\ pte_last.op = "set_flags" ) =>
              /\ FrameBase(m_raw) = pte_prev.arg
              /\ Raw(m_raw) \ PHYS_MASK = pte_last.arg )
    /\ [][ (pte_pc = "ok" /\ pte_last'.op = "set_frame_base") =>
              IF pte_last'.arg \subseteq PHYS_MASK
              THEN /\ pte_pc' = "ok"
                   /\ m_raw' \ PHYS_MASK = m_raw \ PHYS_MASK
                   /\ m_raw' \cap PHYS_MASK = pte_last'.arg
              ELSE /\ pte_pc' = "fatal"
                   /\ m_raw' = m_raw ]_vars
    /\ [][ (pte_pc = "ok" /\ pte_last'.op = "set_flags" /\ pte_pc' = "ok") =>
              m_raw' \cap PHYS_MASK = m_raw \cap PHYS_MASK ]_vars

\* a base then flags were written over an entry that held other bits
C5_Witness ==
    /\ pte_pc = "ok"
    /\ pte_prev = [op |-> "set_frame_base", arg |-> {12, 30, 51}]
    /\ pte_last = [op |-> "set_flags", arg |-> {0, 5, 6, 63}]
    /\ m_raw = {0, 5, 6, 12, 30, 51, 63}

---------------------------------------------------------------------------
(* Properties of the stack walks (under SpecWalk)                          *)

Walking == pc \in {"body", "cond", "done"}

HasText(e) == \E k \in DOMAIN e.m_sections : e.m_sections[k].name = ".text"

\* the first section named .text
TextSection(e) ==
    e.m_sections[CHOOSE k \in DOMAIN e.m_sections :
                    /\ e.m_sections[k].name = ".text"
                    /\ \A j \in 1..(k-1) : e.m_sections[j].name # ".text"]

\* addr lies in [addr, addr + size) of the image's .text
TextHolds(e, addr) ==
    /\ HasText(e)
    /\ Le64(TextSection(e).addr, addr)
    /\ Lt64(addr, Add64(TextSection(e).addr, TextSection(e).size))

\* the return address in the form next_frame wants it for that image
Relative(e, addr) ==
    IF e.m_type = ET_DYN THEN Sub64(addr, e.m_load_addr) ELSE addr

\* the kvm_regs field a slot is named after
Named(kr, r) ==
    CASE r = "Rax" -> kr.rax [] r = "Rdx" -> kr.rdx [] r = "Rcx" -> kr.rcx
      [] r = "Rbx" -> kr.rbx [] r = "Rsi" -> kr.rsi [] r = "Rdi" -> kr.rdi
      [] r = "Rbp" -> kr.rbp [] r = "Rsp" -> kr.rsp [] r = "R8" -> kr.r8
      [] r = "R9" -> kr.r9 [] r = "R10" -> kr.r10 [] r = "R11" -> kr.r11
      [] r = "R12" -> kr.r12 [] r = "R13" -> kr.r13 [] r = "R14" -> kr.r14
      [] r = "R15" -> kr.r15 [] r = "ReturnAddress" -> kr.rip

\* C6: right after the conversion every slot holds the snapshot's value of
\* the register it is named after (ReturnAddress holds rip), and two slots
\* hold the same value only if their registers do.
C6_ExactConversion ==
    (pc = "body" /\ i = 0 /\ stacktrace = <<>>) =>
        /\ \A r \in DwarfRegs : regs[r] = Named(kregs, r)
        /\ \A r1, r2 \in DwarfRegs :
              regs[r1] = regs[r2] => Named(kregs, r1) = Named(kregs, r2)

\* C7: in the walk over several images every recorded pair (address, image)
\* has the address inside the image's .text, the image being the first of
\* the given order for which that is so; the pairs are in callee-to-caller
\* order (the snapshot's rip, then each next_frame result in turn); and the
\* k-th next_frame call is made on the k-th pair's image with the k-th
\* address, less the image's load address when it is ET_DYN.
C7_MultiOwnership ==
    (self = 0 /\ Walking) =>
        /\ \A k \in DOMAIN stacktrace :
              /\ stacktrace[k].elf \in DOMAIN elfs
              /\ TextHolds(elfs[stacktrace[k].elf], stacktrace[k].addr)
              /\ \A j \in 1..(stacktrace[k].elf - 1) :
                    ~TextHolds(elfs[j], stacktrace[k].addr)
              /\ stacktrace[k].addr =
                     IF k = 1 THEN kregs.rip ELSE frames[k-1].ra_out
        /\ Len(frames) <= Len(stacktrace)
        /\ \A k \in DOMAIN frames :
              /\ frames[k].img = stacktrace[k].elf
              /\ frames[k].ra_in =
                     Relative(elfs[stacktrace[k].elf], stacktrace[k].addr)

\* a walk that went from an address two images hold into a position
\* independent image
C7_Witness ==
    /\ self = 0 /\ pc = "done"
    /\ Len(stacktrace) >= 2
    /\ \E j \in DOMAIN elfs :
          j > stacktrace[1].elf /\ TextHolds(elfs[j], stacktrace[1].addr)
    /\ elfs[stacktrace[2].elf].m_type = ET_DYN
    /\ Len(frames) = 2

\* no image's .text holds addr
Unowned(addr) == \A k \in DOMAIN elfs : ~TextHolds(elfs[k], addr)

Cap == IF num_frames = 0 THEN 1 ELSE num_frames

\* decreases with every step of a walk
Variant ==
    CASE pc = "start" -> 2 * Cap + 3
      [] pc = "body"  -> 2 * (Cap - i) + 2
      [] pc = "cond"  -> 2 * (Cap - i) + 1
      [] OTHER        -> 0

\* C9 as stated: for every frame cap N, N = 0 included, a finished walk has
\* at most N entries and has called next_frame fewer than N times.
C9_AsStated ==
    pc = "done" => (Len(stacktrace) <= num_frames /\ Len(frames) < num_frames)

\* C9 amended: both walks terminate, and for a frame cap N >= 1 the trace
\* has at most N entries and next_frame is called fewer than N times; for
\* N = 0 next_frame is not called and the trace has at most one entry
\* (exactly one in the single-image walk).
C9_BoundedByCap ==
    /\ [](Walking => /\ Len(stacktrace) <= Cap
                     /\ Len(frames) < Cap
                     /\ i <= Cap)
    /\ []((pc = "done" /\ self > 0 /\ num_frames = 0) => Len(stacktrace) = 1)
    /\ [][Variant' < Variant]_vars

\* a walk the cap ended
C9_Witness ==
    /\ pc = "done"
    /\ num_frames >= 2
    /\ Len(stacktrace) = num_frames
    /\ Len(frames) = num_frames - 1
    /\ frames[Len(frames)].found

\* C10: the single-image walk records the snapshot's rip, then each
\* next_frame result in turn; every call is made with the address recorded
\* last, less the load address when the image is ET_DYN; every address
\* recorded after the first lies in the image's .text; a call is made only
\* below the cap; and a call that finds no frame, or leaves an address
\* outside .text, ends the walk with nothing more recorded.
C10_SingleWalk ==
    (self > 0 /\ Walking) =>
        /\ stacktrace # <<>> => stacktrace[1] = kregs.rip
        /\ \A k \in DOMAIN frames : k < num_frames
        /\ \A k \in 2..Len(stacktrace) :
              /\ TextHolds(elfs[self], stacktrace[k])
              /\ frames[k-1].found
              /\ stacktrace[k] = frames[k-1].ra_out
        /\ Len(frames) <= Len(stacktrace)
        /\ Len(stacktrace) <= Len(frames) + 1
        /\ \A k \in DOMAIN frames :
              /\ frames[k].img = self
              /\ frames[k].ra_in = Relative(elfs[self], stacktrace[k])
              /\ (~frames[k].found \/ ~TextHolds(elfs[self], frames[k].ra_out))
                 => (pc = "done" /\ Len(frames) = k /\ Len(stacktrace) = k)

\* a walk of a position independent image that next_frame led out of .text
C10_Witness ==
    /\ self > 0 /\ pc = "done"
    /\ elfs[self].m_type = ET_DYN
    /\ Len(stacktrace) = 2
    /\ Len(frames) = 2
    /\ frames[2].found
    /\ ~TextHolds(elfs[self], frames[2].ra_out)

=============================================================================
